---- MODULE Spec2Model ----
\* A model of the GitHub webhook HTTP handler of package githubhook
\* (src/githubhook.go): the request validation pipeline of Handler.ServeHTTP.
\*
\* Go strings and byte slices that the code inspects byte by byte (the request
\* body, the raw payload, the X-Hub-Signature value, the secret) are sequences
\* of one-character strings.  Strings the code only compares, copies or formats
\* (method, header names, the other header values, messages) are TLA+ strings.
EXTENDS Integers, Sequences, FiniteSets, TLC

VARIABLES h, req, run

vars == <<h, req, run>>

-----------------------------------------------------------------------------
\* Bounds of the model.

\* Number of bytes of a MAC (sha1.Size is 20 in the program).
MacSize == 1
\* Longest hexadecimal part of the malformed X-Hub-Signature values enumerated.
MaxHexLen == 2
\* Deepest array nesting of the JSON payloads enumerated.
MaxDepth == 1

-----------------------------------------------------------------------------
\* Program constants (net/http status codes).

StatusOK == 200
StatusBadRequest == 400
StatusMethodNotAllowed == 405
StatusTeapot == 418
StatusInternalServerError == 500

-----------------------------------------------------------------------------
\* Bytes and strings.

\* The printable ASCII characters, in code order from 32 (space) to 126 (~).
\* The double quote, the backslash and the backtick, which no input of the
\* model holds, are spelled by name.
Printable ==
    << " ", "!", "QUOTE", "#", "$", "%", "&", "'", "(", ")", "*", "+", ",", "-", ".", "/",
       "0", "1", "2", "3", "4", "5", "6", "7", "8", "9", ":", ";", "<", "=", ">", "?",
       "@", "A", "B", "C", "D", "E", "F", "G", "H", "I", "J", "K", "L", "M", "N", "O",
       "P", "Q", "R", "S", "T", "U", "V", "W", "X", "Y", "Z", "[", "BACKSLASH", "]", "^", "_",
       "BACKTICK", "a", "b", "c", "d", "e", "f", "g", "h", "i", "j", "k", "l", "m", "n", "o",
       "p", "q", "r", "s", "t", "u", "v", "w", "x", "y", "z", "{", "|", "}", "~" >>

\* The byte value of each character.
ByteTable ==
    [c \in {Printable[i] : i \in 1..Len(Printable)} |->
        31 + (CHOOSE i \in 1..Len(Printable) : Printable[i] = c)]

\* The byte value of a character.
ByteOf(c) == ByteTable[c]

\* The character of a printable byte value.
CharOf(b) == Printable[b - 31]

\* string(bytes): the text of a sequence of characters.
RECURSIVE Str(_)
Str(s) == IF s = <<>> THEN "" ELSE Head(s) \o Str(Tail(s))

\* strings.HasPrefix
HasPrefix(s, prefix) ==
    /\ Len(s) >= Len(prefix)
    /\ SubSeq(s, 1, Len(prefix)) = prefix

\* strings.TrimPrefix
TrimPrefix(s, prefix) ==
    IF HasPrefix(s, prefix) THEN SubSeq(s, Len(prefix) + 1, Len(s)) ELSE s

\* The sequences over alphabet of length at most n.
SeqsUpTo(alphabet, n) == UNION {[1..k -> alphabet] : k \in 0..n}

\* c repeated n times.
Repeat(c, n) == [i \in 1..n |-> c]

-----------------------------------------------------------------------------
\* encoding/hex

HexDigits == <<"0", "1", "2", "3", "4", "5", "6", "7", "8", "9",
               "a", "b", "c", "d", "e", "f">>

\* hex.fromHexChar: the value of a hexadecimal digit, -1 for any other byte.
FromHexChar(c) ==
    LET b == ByteOf(c) IN
    IF b >= ByteOf("0") /\ b <= ByteOf("9") THEN b - ByteOf("0")
    ELSE IF b >= ByteOf("a") /\ b <= ByteOf("f") THEN b - ByteOf("a") + 10
    ELSE IF b >= ByteOf("A") /\ b <= ByteOf("F") THEN b - ByteOf("A") + 10
    ELSE -1

UpperHexDigits == <<"0", "1", "2", "3", "4", "5", "6", "7", "8", "9",
                    "A", "B", "C", "D", "E", "F">>

\* hex.InvalidByteError.Error: fmt.Sprintf("encoding/hex: invalid byte: %#U", rune(e))
InvalidByteError(c) ==
    "encoding/hex: invalid byte: U+00" \o UpperHexDigits[(ByteOf(c) \div 16) + 1]
        \o UpperHexDigits[(ByteOf(c) % 16) + 1] \o " '" \o c \o "'"

\* hex.ErrLength.Error
ErrLength == "encoding/hex: odd length hex string"

\* hex.DecodeString: [bytes, err], err = "" when the string decodes.  Pairs
\* are decoded from the left; the first invalid byte is reported; a trailing
\* single valid digit is an odd-length error.
RECURSIVE DecodeString(_)
DecodeString(s) ==
    IF Len(s) = 0 THEN [bytes |-> <<>>, err |-> ""]
    ELSE IF FromHexChar(s[1]) < 0 THEN [bytes |-> <<>>, err |-> InvalidByteError(s[1])]
    ELSE IF Len(s) = 1 THEN [bytes |-> <<>>, err |-> ErrLength]
    ELSE IF FromHexChar(s[2]) < 0 THEN [bytes |-> <<>>, err |-> InvalidByteError(s[2])]
    ELSE LET rest == DecodeString(SubSeq(s, 3, Len(s))) IN
         IF rest.err # "" THEN rest
         ELSE [bytes |-> <<16 * FromHexChar(s[1]) + FromHexChar(s[2])>> \o rest.bytes,
               err |-> ""]

\* hex.EncodeToString: two lower-case digits per byte.
RECURSIVE EncodeToString(_)
EncodeToString(bytes) ==
    IF bytes = <<>> THEN <<>>
    ELSE <<HexDigits[(Head(bytes) \div 16) + 1], HexDigits[(Head(bytes) % 16) + 1]>>
         \o EncodeToString(Tail(bytes))

-----------------------------------------------------------------------------
\* crypto/hmac with crypto/sha1, as a keyed hash of MacSize bytes.  SHA-1 is
\* replaced by a multiplicative byte hash; what the pipeline uses of it is kept:
\* the MAC is a function of the key bytes and of the message bytes, in order.

RECURSIVE Absorb(_, _)
Absorb(state, s) ==
    IF s = <<>> THEN state
    ELSE Absorb((state * 33 + ByteOf(Head(s))) % 251, Tail(s))

\* hmac.New(sha1.New, key); hash.Write(msg); hash.Sum(nil)
HmacSum(key, msg) ==
    [i \in 1..MacSize |-> Absorb(Absorb(Absorb(i * 91, key) * 7 % 251, msg), key)]

\* hmac.Equal
HmacEqual(mac1, mac2) == mac1 = mac2

-----------------------------------------------------------------------------
\* encoding/json, for documents made of digits, brackets, commas and spaces:
\* json.Unmarshal into an interface{} value.  A number decodes to
\* [kind |-> "number"], an array to [kind |-> "array"]; the error text is the
\* text of the json.SyntaxError the scanner reports at the first bad byte.

IsDigit(c) == ByteOf(c) >= ByteOf("0") /\ ByteOf(c) <= ByteOf("9")

RECURSIVE SkipSpace(_)
SkipSpace(s) == IF s # <<>> /\ Head(s) = " " THEN SkipSpace(Tail(s)) ELSE s

UnexpectedEnd == "unexpected end of JSON input"

InvalidCharacter(c, context) == "invalid character '" \o c \o "' " \o context

\* The digits of a number at the head of s: "0" alone, or a run of digits.
RECURSIVE DigitRun(_)
DigitRun(s) ==
    IF s = <<>> \/ ~IsDigit(Head(s)) THEN <<>> ELSE <<Head(s)>> \o DigitRun(Tail(s))

RECURSIVE NumberOf(_, _)
NumberOf(digits, acc) ==
    IF digits = <<>> THEN acc
    ELSE NumberOf(Tail(digits), 10 * acc + (ByteOf(Head(digits)) - ByteOf("0")))

JSONFail(msg) == [err |-> msg, val |-> [kind |-> "nil"], rest |-> <<>>]

RECURSIVE ParseValue(_), ParseElements(_, _, _)
\* One value at the head of s0: [err, val, rest].
ParseValue(s0) ==
    LET s == SkipSpace(s0) IN
    IF s = <<>> THEN JSONFail(UnexpectedEnd)
    ELSE IF Head(s) = "[" THEN ParseElements(Tail(s), <<>>, TRUE)
    ELSE IF IsDigit(Head(s)) THEN
        LET digits == IF Head(s) = "0" THEN <<"0">> ELSE DigitRun(s) IN
        [err |-> "", val |-> [kind |-> "number", n |-> NumberOf(digits, 0)],
         rest |-> SubSeq(s, Len(digits) + 1, Len(s))]
    ELSE JSONFail(InvalidCharacter(Head(s), "looking for beginning of value"))

\* The elements of an array after its "[" (mayClose) or after a "," .
ParseElements(s0, elems, mayClose) ==
    LET s == SkipSpace(s0) IN
    IF s = <<>> THEN JSONFail(UnexpectedEnd)
    ELSE IF mayClose /\ Head(s) = "]" THEN
        [err |-> "", val |-> [kind |-> "array", elems |-> elems], rest |-> Tail(s)]
    ELSE LET v == ParseValue(s) IN
         IF v.err # "" THEN v
         ELSE LET t == SkipSpace(v.rest) IN
              IF t = <<>> THEN JSONFail(UnexpectedEnd)
              ELSE IF Head(t) = "]" THEN
                  [err |-> "", val |-> [kind |-> "array", elems |-> Append(elems, v.val)],
                   rest |-> Tail(t)]
              ELSE IF Head(t) = "," THEN ParseElements(Tail(t), Append(elems, v.val), FALSE)
              ELSE JSONFail(InvalidCharacter(Head(t), "after array element"))

\* json.Unmarshal(data, &payload): [err, val].
Unmarshal(data) ==
    LET v == ParseValue(data) IN
    IF v.err # "" THEN [err |-> v.err, val |-> [kind |-> "nil"]]
    ELSE IF SkipSpace(v.rest) # <<>> THEN
        [err |-> InvalidCharacter(Head(SkipSpace(v.rest)), "after top-level value"),
         val |-> [kind |-> "nil"]]
    ELSE [err |-> "", val |-> v.val]

-----------------------------------------------------------------------------
\* net/url and net/http form parsing, as used by Request.PostFormValue.

\* strings.Cut(s, sep) for a one-byte separator.
Cut(s, sep) ==
    IF \E i \in 1..Len(s) : s[i] = sep THEN
        LET i == CHOOSE j \in 1..Len(s) : s[j] = sep /\ \A k \in 1..(j - 1) : s[k] # sep IN
        [before |-> SubSeq(s, 1, i - 1), after |-> SubSeq(s, i + 1, Len(s)), found |-> TRUE]
    ELSE [before |-> s, after |-> <<>>, found |-> FALSE]

\* url.QueryUnescape: [err, s].  "%XX" is the byte XX, "+" is a space; a "%"
\* that two hexadecimal digits do not follow is an url.EscapeError.
RECURSIVE QueryUnescape(_)
QueryUnescape(s) ==
    IF s = <<>> THEN [err |-> FALSE, s |-> <<>>]
    ELSE IF Head(s) = "%" THEN
        IF Len(s) < 3 \/ FromHexChar(s[2]) < 0 \/ FromHexChar(s[3]) < 0
        THEN [err |-> TRUE, s |-> <<>>]
        ELSE LET rest == QueryUnescape(SubSeq(s, 4, Len(s))) IN
             IF rest.err THEN rest
             ELSE [err |-> FALSE,
                   s |-> <<CharOf(16 * FromHexChar(s[2]) + FromHexChar(s[3]))>> \o rest.s]
    ELSE LET rest == QueryUnescape(Tail(s)) IN
         IF rest.err THEN rest
         ELSE [err |-> FALSE, s |-> <<IF Head(s) = "+" THEN " " ELSE Head(s)>> \o rest.s]

\* url.shouldEscape in query-component mode: letters, digits and "-_.~" stay.
ShouldEscape(c) ==
    LET b == ByteOf(c) IN
    ~ \/ (b >= ByteOf("a") /\ b <= ByteOf("z"))
      \/ (b >= ByteOf("A") /\ b <= ByteOf("Z"))
      \/ (b >= ByteOf("0") /\ b <= ByteOf("9"))
      \/ c \in {"-", "_", ".", "~"}

\* url.QueryEscape
RECURSIVE QueryEscape(_)
QueryEscape(s) ==
    IF s = <<>> THEN <<>>
    ELSE (IF Head(s) = " " THEN <<"+">>
          ELSE IF ShouldEscape(Head(s)) THEN
              <<"%", UpperHexDigits[(ByteOf(Head(s)) \div 16) + 1],
                UpperHexDigits[(ByteOf(Head(s)) % 16) + 1]>>
          ELSE <<Head(s)>>) \o QueryEscape(Tail(s))

\* url.ParseQuery: the <<key, value>> pairs of a query, in order.  A pair with
\* a semicolon in it, an empty pair and a pair that does not unescape are
\* skipped (the error url.ParseQuery returns for them is dropped by the caller).
RECURSIVE ParseQuery(_)
ParseQuery(query) ==
    IF query = <<>> THEN <<>>
    ELSE LET pair == Cut(query, "&")
             kv == Cut(pair.before, "=")
             key == QueryUnescape(kv.before)
             value == QueryUnescape(kv.after)
         IN  IF \/ \E i \in 1..Len(pair.before) : pair.before[i] = ";"
                \/ pair.before = <<>>
                \/ key.err
                \/ value.err
             THEN ParseQuery(pair.after)
             ELSE <<<<key.s, value.s>>>> \o ParseQuery(pair.after)

\* Request.PostFormValue(key) on a POST request whose Content-Type is
\* application/x-www-form-urlencoded: the first value of key in the parsed
\* body, "" when there is none.  The error of ParseMultipartForm is ignored
\* there: when reading the body fails the form is empty.
PostFormValue(body, bodyErr, key) ==
    LET form == IF bodyErr THEN <<>> ELSE ParseQuery(body)
        hits == {i \in 1..Len(form) : form[i][1] = key}
    IN  IF hits = {} THEN <<>>
        ELSE form[CHOOSE i \in hits : \A j \in hits : i <= j][2]

\* ioutil.ReadAll(req.Body): [data, err]; err is the reader's error text.
ReadAll(body, bodyErr) ==
    IF bodyErr THEN [data |-> <<>>, err |-> "unexpected EOF"]
    ELSE [data |-> body, err |-> ""]

-----------------------------------------------------------------------------
\* Errors.

\* The nil error.
Nil == [kind |-> "nil", StatusCode |-> 0, Message |-> ""]

\* &RequestError{StatusCode: code, Message: msg}
RequestError(code, msg) == [kind |-> "RequestError", StatusCode |-> code, Message |-> msg]

\* An error that is no *RequestError (fmt.Errorf, an I/O error, a json error).
PlainError(msg) == [kind |-> "error", StatusCode |-> 0, Message |-> msg]

\* err.Error()
ErrorText(err) ==
    IF err.kind = "RequestError"
    THEN "request error " \o ToString(err.StatusCode) \o ": " \o err.Message
    ELSE err.Message

\* http.StatusText, for the one code the handler asks it for.
StatusText(code) ==
    IF code = StatusInternalServerError THEN "Internal Server Error" ELSE ""

-----------------------------------------------------------------------------
\* Inputs: the handlers and the requests of the model.

Chars_sha1 == <<"s", "h", "a", "1", "=">>
Chars_payload == <<"p", "a", "y", "l", "o", "a", "d">>
Chars_foobar == <<"f", "o", "o", "b", "a", "r">>
Chars_wrong == <<"w", "r", "o", "n", "g">>

\* Handler.DecodePayload: nil, or one of three functions.
\*   "string":  returns string(rawPayload), nil       (TestHandlerDecodePayload)
\*   "fail":    always returns an error that is no RequestError
\*   "teapot":  always returns a *RequestError with status 418
Decoders == {"nil", "string", "fail", "teapot"}

Handlers ==
    [Secret : {<<>>, Chars_foobar},
     DecodePayload : Decoders,
     Delivery : BOOLEAN,     \* TRUE: the Delivery callback is set
     Error : BOOLEAN]        \* TRUE: the Error callback is set

\* The number 1 nested in d arrays.
Nested(d) == Repeat("[", d) \o <<"1">> \o Repeat("]", d)

\* Raw payloads: JSON documents, and texts that are no JSON document.
Payloads ==
    {Nested(d) : d \in 0..MaxDepth}
        \cup {SubSeq(Nested(d), 1, 2 * d) : d \in 1..MaxDepth}
        \cup {<<>>}

\* testSignRequest: the X-Hub-Signature value of rawPayload under secret.
SignatureOf(secret, rawPayload) == Chars_sha1 \o EncodeToString(HmacSum(secret, rawPayload))

\* strings.ToUpper on the hexadecimal part of a signature.
UpperHex(sig) ==
    [i \in 1..Len(sig) |->
        IF i > Len(Chars_sha1) /\ FromHexChar(sig[i]) >= 10
        THEN UpperHexDigits[FromHexChar(sig[i]) + 1] ELSE sig[i]]

Signatures ==
    {<<>>, Chars_foobar}
        \cup {Chars_sha1 \o x : x \in SeqsUpTo({"0", "z"}, MaxHexLen)}
        \cup {SignatureOf(k, Nested(d)) : k \in {Chars_foobar, Chars_wrong}, d \in {0, MaxDepth}}
        \cup {UpperHex(SignatureOf(Chars_foobar, Nested(MaxDepth)))}

\* Request bodies: a payload sent as it is, a payload sent as the field
\* "payload" of a form, and a form without that field.
Bodies ==
    Payloads
        \cup {Chars_payload \o <<"=">> \o QueryEscape(Nested(d)) : d \in {0, MaxDepth}}
        \cup {<<"a", "=", "1">>}

ContentTypes ==
    {"application/json", "application/x-www-form-urlencoded", "",
     "application/json; charset=utf-8"}

HeaderNames == {"X-GitHub-Event", "X-GitHub-Delivery", "Content-Type", "X-Hub-Signature"}

\* A request: its method, its headers (an absent header is the empty value,
\* as Header.Get returns it), its body and whether reading the body fails.
NewRequest(method, event, deliveryID, contentType, signature, body, bodyErr) ==
    [Method |-> method,
     Header |-> [n \in HeaderNames |->
                    CASE n = "X-GitHub-Event" -> event
                      [] n = "X-GitHub-Delivery" -> deliveryID
                      [] n = "Content-Type" -> contentType
                      [] n = "X-Hub-Signature" -> signature],
     Body |-> body,
     BodyErr |-> bodyErr]

Requests ==
    {NewRequest(m, e, d, t, s, b, f) :
        m \in {"POST", "GET", "post"}, e \in {"", "push"}, d \in {"", "d1"},
        t \in ContentTypes, s \in Signatures, b \in Bodies, f \in BOOLEAN}

NoRequest == NewRequest("", "", "", "", <<>>, <<>>, FALSE)

\* req.Header.Get(name)
HeaderGet(r, name) == r.Header[name]

-----------------------------------------------------------------------------
\* One invocation of ServeHTTP: the position in it, the locals of
\* handleRequest, the response writer, and what the invocation did.
\*   log            the functions entered and the effects, in order
\*   decodeCalls    the arguments of each call of Handler.DecodePayload
\*   deliveryCalls  the arguments of each call of Handler.Delivery
\*   errorCalls     the arguments of each call of Handler.Error

NilPayload == [kind |-> "nil"]

\* httptest.NewRecorder(): status 200 until WriteHeader is called.
NewRecorder == [Code |-> StatusOK, Body |-> "", wroteHeader |-> FALSE]

NewRun(pc) ==
    [pc |-> pc, event |-> "", deliveryID |-> "", rawPayload |-> <<>>,
     payload |-> NilPayload, err |-> Nil, w |-> NewRecorder, log |-> <<>>,
     decodeCalls |-> <<>>, deliveryCalls |-> <<>>, errorCalls |-> <<>>]

\* Mutant of Return: the error is kept but the pipeline goes on.
Return_KeepsGoing(r, err, next) ==
    IF err # Nil THEN [r EXCEPT !.err = err, !.pc = next]
    ELSE [r EXCEPT !.pc = next]

\* A stage of handleRequest returned err: "if err != nil { return err }",
\* and ServeHTTP (lines 34-38) hands a non-nil error to handleError.
Return(r, err, next) ==
    IF err # Nil THEN [r EXCEPT !.err = err, !.pc = "handleError"]
    ELSE [r EXCEPT !.pc = next]

-----------------------------------------------------------------------------
\* The functions of githubhook.go.

\* Mutant of checkHTTPMethod: the method is compared without regard to case.
checkHTTPMethod_AnyCase(rq) ==
    IF rq.Method \notin {"POST", "post"}
    THEN RequestError(StatusMethodNotAllowed, "method not allowed: " \o rq.Method)
    ELSE Nil

\* checkHTTPMethod(req): the error returned.
checkHTTPMethod(rq) ==
    IF rq.Method # "POST"
    THEN RequestError(StatusMethodNotAllowed, "method not allowed: " \o rq.Method)
    ELSE Nil

\* requireHeader(name, req): [hd, err].
requireHeader(name, rq) ==
    LET hd == HeaderGet(rq, name) IN
    IF Len(hd) = 0
    THEN [hd |-> hd, err |-> RequestError(StatusBadRequest, "missing header: " \o name)]
    ELSE [hd |-> hd, err |-> Nil]

\* Mutant of getRawPayload: every content type that is not the form type is
\* read as JSON.
getRawPayload_DefaultJSON(rq) ==
    LET t == HeaderGet(rq, "Content-Type") IN
    IF t = "application/x-www-form-urlencoded" THEN
        [data |-> PostFormValue(rq.Body, rq.BodyErr, Chars_payload), err |-> Nil,
         read |-> TRUE]
    ELSE LET all == ReadAll(rq.Body, rq.BodyErr) IN
         [data |-> all.data,
          err |-> IF all.err # "" THEN PlainError(all.err) ELSE Nil,
          read |-> TRUE]

\* getRawPayload(req): [data, err, read]; read tells whether req.Body was read.
getRawPayload(rq) ==
    LET t == HeaderGet(rq, "Content-Type") IN
    IF t = "application/json" THEN
        LET all == ReadAll(rq.Body, rq.BodyErr) IN
        [data |-> all.data,
         err |-> IF all.err # "" THEN PlainError(all.err) ELSE Nil,
         read |-> TRUE]
    ELSE IF t = "application/x-www-form-urlencoded" THEN
        [data |-> PostFormValue(rq.Body, rq.BodyErr, Chars_payload), err |-> Nil,
         read |-> TRUE]
    ELSE [data |-> <<>>,
          err |-> RequestError(StatusBadRequest, "invalid content type: " \o t),
          read |-> FALSE]

\* Mutant of checkSignaturePayload: the MAC of the request is decoded but
\* not compared.
checkSignaturePayload_NoCompare(hh, rawPayload, signature) ==
    IF ~HasPrefix(signature, Chars_sha1) THEN PlainError("format")
    ELSE LET requestMAC == DecodeString(TrimPrefix(signature, Chars_sha1)) IN
         IF requestMAC.err # "" THEN PlainError(requestMAC.err) ELSE Nil

\* Mutant of checkSignaturePayload: key and message are exchanged.
checkSignaturePayload_KeyIsPayload(hh, rawPayload, signature) ==
    IF ~HasPrefix(signature, Chars_sha1) THEN PlainError("format")
    ELSE LET requestMAC == DecodeString(TrimPrefix(signature, Chars_sha1))
             expectedMAC == HmacSum(rawPayload, hh.Secret)
         IN  IF requestMAC.err # "" THEN PlainError(requestMAC.err)
             ELSE IF ~HmacEqual(requestMAC.bytes, expectedMAC)
             THEN PlainError("doesn't match secret")
             ELSE Nil

\* Handler.checkSignaturePayload(rawPayload, signature): the error returned.
checkSignaturePayload(hh, rawPayload, signature) ==
    IF ~HasPrefix(signature, Chars_sha1) THEN PlainError("format")
    ELSE LET requestMAC == DecodeString(TrimPrefix(signature, Chars_sha1))
             expectedMAC == HmacSum(hh.Secret, rawPayload)
         IN  IF requestMAC.err # "" THEN PlainError(requestMAC.err)
             ELSE IF ~HmacEqual(requestMAC.bytes, expectedMAC)
             THEN PlainError("doesn't match secret")
             ELSE Nil

\* Mutant of checkSignature: the signature is checked whatever the Secret.
checkSignature_AlwaysChecks(hh, rawPayload, rq) ==
    LET signature == requireHeader("X-Hub-Signature", rq) IN
    IF signature.err # Nil THEN signature.err
    ELSE LET err == checkSignaturePayload(hh, rawPayload, signature.hd) IN
         IF err # Nil
         THEN RequestError(StatusBadRequest,
                           "invalid header X-Hub-Signature: " \o ErrorText(err))
         ELSE Nil

\* Handler.checkSignature(rawPayload, req): the error returned.
checkSignature(hh, rawPayload, rq) ==
    IF Len(hh.Secret) = 0 THEN Nil
    ELSE LET signature == requireHeader("X-Hub-Signature", rq) IN
         IF signature.err # Nil THEN signature.err
         ELSE LET err == checkSignaturePayload(hh, rawPayload, signature.hd) IN
              IF err # Nil
              THEN RequestError(StatusBadRequest,
                                "invalid header X-Hub-Signature: " \o ErrorText(err))
              ELSE Nil

\* The function held by Handler.DecodePayload: [payload, err].
CustomDecodePayload(decoder, event, rawPayload) ==
    CASE decoder = "string" -> [payload |-> [kind |-> "string", s |-> rawPayload], err |-> Nil]
      [] decoder = "fail" -> [payload |-> NilPayload, err |-> PlainError("cannot decode")]
      [] decoder = "teapot" ->
            [payload |-> NilPayload, err |-> RequestError(StatusTeapot, "I'm a teapot")]

\* Mutant of decodePayload: a RequestError of the decoder is returned as it is.
decodePayload_KeepsRequestError(hh, event, rawPayload) ==
    LET got == IF hh.DecodePayload # "nil"
               THEN CustomDecodePayload(hh.DecodePayload, event, rawPayload)
               ELSE LET v == Unmarshal(rawPayload) IN
                    [payload |-> v.val,
                     err |-> IF v.err # "" THEN PlainError(v.err) ELSE Nil]
    IN  IF got.err.kind = "RequestError" THEN [payload |-> NilPayload, err |-> got.err]
        ELSE IF got.err # Nil
        THEN [payload |-> NilPayload,
              err |-> RequestError(StatusBadRequest,
                                   "payload decode error: " \o ErrorText(got.err))]
        ELSE [payload |-> got.payload, err |-> Nil]

\* Handler.decodePayload(event, rawPayload): [payload, err].
decodePayload(hh, event, rawPayload) ==
    LET got == IF hh.DecodePayload # "nil"
               THEN CustomDecodePayload(hh.DecodePayload, event, rawPayload)
               ELSE LET v == Unmarshal(rawPayload) IN
                    [payload |-> v.val,
                     err |-> IF v.err # "" THEN PlainError(v.err) ELSE Nil]
    IN  IF got.err # Nil
        THEN [payload |-> NilPayload,
              err |-> RequestError(StatusBadRequest,
                                   "payload decode error: " \o ErrorText(got.err))]
        ELSE [payload |-> got.payload, err |-> Nil]

\* http.Error(w, message, statusCode): the status, then the message and a
\* newline as the body.
HttpError(w, message, statusCode) ==
    [Code |-> IF w.wroteHeader THEN w.Code ELSE statusCode,
     Body |-> w.Body \o message \o "\n",
     wroteHeader |-> TRUE]

\* Mutant of handleError: an error that is no RequestError is dropped,
\* nothing is written for it.
handleError_DropsInternal(hh, rq, r) ==
    IF r.err.kind = "RequestError"
    THEN [r EXCEPT !.w = HttpError(r.w, r.err.Message, r.err.StatusCode),
                   !.log = r.log \o <<"handleError", "http.Error">>,
                   !.pc = "done"]
    ELSE [r EXCEPT !.log = Append(r.log, "handleError"), !.pc = "done"]

\* Mutant of handleError: an error that is no RequestError is written with
\* its own message.
handleError_LeaksMessage(hh, rq, r) ==
    LET err == r.err
        statusCode == IF err.kind = "RequestError" THEN err.StatusCode
                      ELSE StatusInternalServerError
        written == [r EXCEPT !.w = HttpError(r.w, err.Message, statusCode),
                             !.log = r.log \o <<"handleError", "http.Error">>,
                             !.pc = "done"]
    IN  IF hh.Error
        THEN [written EXCEPT !.log = written.log \o <<"Error">>,
                             !.errorCalls = Append(r.errorCalls, [err |-> err, req |-> rq])]
        ELSE written

\* Mutant of handleError: the observer is told of RequestErrors only.
handleError_ObserverOnClassified(hh, rq, r) ==
    LET err == r.err
        statusCode == IF err.kind = "RequestError" THEN err.StatusCode
                      ELSE StatusInternalServerError
        message == IF err.kind = "RequestError" THEN err.Message
                   ELSE StatusText(statusCode)
        written == [r EXCEPT !.w = HttpError(r.w, message, statusCode),
                             !.log = r.log \o <<"handleError", "http.Error">>,
                             !.pc = "done"]
    IN  IF hh.Error /\ err.kind = "RequestError"
        THEN [written EXCEPT !.log = written.log \o <<"Error">>,
                             !.errorCalls = Append(r.errorCalls, [err |-> err, req |-> rq])]
        ELSE written

\* Handler.handleError(err, w, req): the run after it.
handleError(hh, rq, r) ==
    LET err == r.err
        statusCode == IF err.kind = "RequestError" THEN err.StatusCode
                      ELSE StatusInternalServerError
        message == IF err.kind = "RequestError" THEN err.Message
                   ELSE StatusText(statusCode)
        written == [r EXCEPT !.w = HttpError(r.w, message, statusCode),
                             !.log = r.log \o <<"handleError", "http.Error">>,
                             !.pc = "done"]
    IN  IF hh.Error
        THEN [written EXCEPT !.log = written.log \o <<"Error">>,
                             !.errorCalls = Append(r.errorCalls, [err |-> err, req |-> rq])]
        ELSE written

-----------------------------------------------------------------------------
\* Handler.handleRequest, statement by statement: each operator is the run
\* after one call of handleRequest and the error test that follows it.

\* lines 42-45
handleRequest_checkHTTPMethod(rq, r) ==
    Return([r EXCEPT !.log = Append(r.log, "checkHTTPMethod")],
           checkHTTPMethod(rq), "requireEvent")

\* Mutant of handleRequest_requireEvent: the delivery header is asked for
\* in place of the event header.
handleRequest_requireEvent_WrongName(rq, r) ==
    LET got == requireHeader("X-GitHub-Delivery", rq) IN
    Return([r EXCEPT !.log = Append(r.log, "requireHeader X-GitHub-Event"),
                     !.event = got.hd],
           got.err, "requireDelivery")

\* lines 46-49
handleRequest_requireEvent(rq, r) ==
    LET got == requireHeader("X-GitHub-Event", rq) IN
    Return([r EXCEPT !.log = Append(r.log, "requireHeader X-GitHub-Event"),
                     !.event = got.hd],
           got.err, "requireDelivery")

\* lines 50-53
handleRequest_requireDelivery(rq, r) ==
    LET got == requireHeader("X-GitHub-Delivery", rq) IN
    Return([r EXCEPT !.log = Append(r.log, "requireHeader X-GitHub-Delivery"),
                     !.deliveryID = got.hd],
           got.err, "getRawPayload")

\* lines 54-57
handleRequest_getRawPayload(rq, r) ==
    LET got == getRawPayload(rq) IN
    Return([r EXCEPT !.log = r.log \o <<"getRawPayload">>
                                   \o (IF got.read THEN <<"Body.Read">> ELSE <<>>),
                     !.rawPayload = got.data],
           got.err, "checkSignature")

\* lines 58-61
handleRequest_checkSignature(hh, rq, r) ==
    Return([r EXCEPT !.log = Append(r.log, "checkSignature")],
           checkSignature(hh, r.rawPayload, rq), "decodePayload")

\* lines 62-65
handleRequest_decodePayload(hh, r) ==
    LET got == decodePayload(hh, r.event, r.rawPayload) IN
    Return([r EXCEPT !.log = r.log \o <<"decodePayload">>
                                   \o (IF hh.DecodePayload # "nil" THEN <<"DecodePayload">>
                                       ELSE <<"json.Unmarshal">>),
                     !.decodeCalls =
                         IF hh.DecodePayload # "nil"
                         THEN Append(r.decodeCalls,
                                     [event |-> r.event, rawPayload |-> r.rawPayload])
                         ELSE r.decodeCalls,
                     !.payload = got.payload],
           got.err, "Delivery")

\* Mutant of handleRequest_Delivery: the callback is given the delivery
\* identifier as the event and the event as the delivery identifier.
handleRequest_Delivery_SwapsArgs(hh, r) ==
    IF hh.Delivery
    THEN [r EXCEPT !.log = Append(r.log, "Delivery"),
                   !.deliveryCalls =
                       Append(r.deliveryCalls,
                              [event |-> r.deliveryID, deliveryID |-> r.event,
                               payload |-> r.payload]),
                   !.pc = "done"]
    ELSE [r EXCEPT !.pc = "done"]

\* lines 66-69, and the return of ServeHTTP
handleRequest_Delivery(hh, r) ==
    IF hh.Delivery
    THEN [r EXCEPT !.log = Append(r.log, "Delivery"),
                   !.deliveryCalls =
                       Append(r.deliveryCalls,
                              [event |-> r.event, deliveryID |-> r.deliveryID,
                               payload |-> r.payload]),
                   !.pc = "done"]
    ELSE [r EXCEPT !.pc = "done"]

\* The next statement of ServeHTTP(w, req) on handler hh.
Step(hh, rq, r) ==
    CASE r.pc = "checkHTTPMethod" -> handleRequest_checkHTTPMethod(rq, r)
      [] r.pc = "requireEvent" -> handleRequest_requireEvent(rq, r)
      [] r.pc = "requireDelivery" -> handleRequest_requireDelivery(rq, r)
      [] r.pc = "getRawPayload" -> handleRequest_getRawPayload(rq, r)
      [] r.pc = "checkSignature" -> handleRequest_checkSignature(hh, rq, r)
      [] r.pc = "decodePayload" -> handleRequest_decodePayload(hh, r)
      [] r.pc = "Delivery" -> handleRequest_Delivery(hh, r)
      [] r.pc = "handleError" -> handleError(hh, rq, r)
      [] r.pc = "done" -> r

\* Handler.ServeHTTP(w, req) run to its return.
RECURSIVE ServeHTTP(_, _, _)
ServeHTTP(hh, rq, r) ==
    IF r.pc = "done" THEN r ELSE ServeHTTP(hh, rq, Step(hh, rq, r))

-----------------------------------------------------------------------------
\* The state machine.

\* A handler is constructed; no request has arrived.
Init ==
    /\ h \in Handlers
    /\ req = NoRequest
    /\ run = NewRun("idle")

\* The server calls ServeHTTP with a request and a fresh response writer.
Receive ==
    /\ run.pc = "idle"
    /\ req' \in Requests
    /\ run' = NewRun("checkHTTPMethod")
    /\ UNCHANGED h

\* ServeHTTP has returned: the handler waits for the next request.
Finish ==
    /\ run.pc = "done"
    /\ req' = NoRequest
    /\ run' = NewRun("idle")
    /\ UNCHANGED h

\* handleRequest, lines 42-45
CheckHTTPMethod ==
    /\ run.pc = "checkHTTPMethod"
    /\ run' = handleRequest_checkHTTPMethod(req, run)
    /\ UNCHANGED <<h, req>>

\* handleRequest, lines 46-49
RequireEvent ==
    /\ run.pc = "requireEvent"
    /\ run' = handleRequest_requireEvent(req, run)
    /\ UNCHANGED <<h, req>>

\* handleRequest, lines 50-53
RequireDelivery ==
    /\ run.pc = "requireDelivery"
    /\ run' = handleRequest_requireDelivery(req, run)
    /\ UNCHANGED <<h, req>>

\* handleRequest, lines 54-57
GetRawPayload ==
    /\ run.pc = "getRawPayload"
    /\ run' = handleRequest_getRawPayload(req, run)
    /\ UNCHANGED <<h, req>>

\* handleRequest, lines 58-61
CheckSignature ==
    /\ run.pc = "checkSignature"
    /\ run' = handleRequest_checkSignature(h, req, run)
    /\ UNCHANGED <<h, req>>

\* handleRequest, lines 62-65
DecodePayload ==
    /\ run.pc = "decodePayload"
    /\ run' = handleRequest_decodePayload(h, run)
    /\ UNCHANGED <<h, req>>

\* handleRequest, lines 66-69
Delivery ==
    /\ run.pc = "Delivery"
    /\ run' = handleRequest_Delivery(h, run)
    /\ UNCHANGED <<h, req>>

\* ServeHTTP, lines 35-38
HandleError ==
    /\ run.pc = "handleError"
    /\ run' = handleError(h, req, run)
    /\ UNCHANGED <<h, req>>

Next ==
    \/ Receive
    \/ CheckHTTPMethod
    \/ RequireEvent
    \/ RequireDelivery
    \/ GetRawPayload
    \/ CheckSignature
    \/ DecodePayload
    \/ Delivery
    \/ HandleError
    \/ Finish

Spec == Init /\ [][Next]_vars

-----------------------------------------------------------------------------
\* handleError called on its own, as TestHandlerErrorInternal calls it: with
\* an error, a fresh recorder and a request.

\* The errors given to handleError: the errors of the tests, the errors the
\* stages make, and errors of either kind with each other's texts.
Errors ==
    {PlainError(m) : m \in {"internal error", "unexpected EOF", "method not allowed: GET"}}
        \cup {RequestError(StatusTeapot, "I'm a teapot"),
              RequestError(StatusMethodNotAllowed, "method not allowed: GET"),
              RequestError(StatusBadRequest, "missing header: X-GitHub-Event"),
              RequestError(StatusBadRequest, "payload decode error: internal error"),
              RequestError(StatusInternalServerError, "internal error")}

InitHandleError ==
    /\ h \in Handlers
    /\ req \in {NewRequest("GET", "", "", "", <<>>, <<>>, FALSE),
                NewRequest("POST", "push", "d1", "application/json", <<>>, <<"1">>, TRUE)}
    /\ \E err \in Errors : run = [NewRun("handleError") EXCEPT !.err = err]

SpecHandleError == InitHandleError /\ [][HandleError]_vars

-----------------------------------------------------------------------------
\* Vocabulary of the properties.

Done == run.pc = "done"

InLog(op) == \E i \in 1..Len(run.log) : run.log[i] = op

\* The Delivery callback was invoked in this run.
Delivered == run.deliveryCalls # <<>>

\* A classified error response was written: the status and message of a
\* RequestError.
ClassifiedResponse ==
    /\ run.w.wroteHeader
    /\ run.err.kind = "RequestError"
    /\ run.w.Code = run.err.StatusCode
    /\ run.w.Body = run.err.Message \o "\n"

\* An internal-error response was written.
InternalResponse ==
    /\ run.w.wroteHeader
    /\ run.err.kind = "error"
    /\ run.w.Code = StatusInternalServerError
    /\ run.w.Body = "Internal Server Error\n"

\* How many of the given conditions hold.
Count(conds) == Cardinality({i \in 1..Len(conds) : conds[i]})

\* The stages of handleRequest in the order of section 2 of the specification.
StageOrder ==
    <<"checkHTTPMethod", "requireHeader X-GitHub-Event", "requireHeader X-GitHub-Delivery",
      "getRawPayload", "checkSignature", "decodePayload", "Delivery">>

IsStage(op) == \E i \in 1..Len(StageOrder) : StageOrder[i] = op

\* The stages this run entered, in order.
StagesRun == SelectSeq(run.log, IsStage)

\* What each stage, taken alone, answers for the request in hand.
StageErrors ==
    LET raw == getRawPayload(req) IN
    <<checkHTTPMethod(req),
      requireHeader("X-GitHub-Event", req).err,
      requireHeader("X-GitHub-Delivery", req).err,
      raw.err,
      checkSignature(h, raw.data, req),
      decodePayload(h, HeaderGet(req, "X-GitHub-Event"), raw.data).err>>

\* The first of the stages that fails, given their answers errs; one more
\* than their number when none does.
FirstFailure(errs) ==
    LET failing == {i \in 1..Len(errs) : errs[i] # Nil} IN
    IF failing = {} THEN Len(errs) + 1
    ELSE CHOOSE i \in failing : \A j \in failing : i <= j

-----------------------------------------------------------------------------
\* C1 (as stated): at the return of ServeHTTP exactly one of: the Delivery
\* callback was invoked, a classified error response was written, an
\* internal-error response was written; and Delivery is never invoked in a
\* run in which a stage failed.  Fails for a handler without Delivery.
C1_ExactlyOneOutcome_AsStated ==
    /\ Done => Count(<<Delivered, ClassifiedResponse, InternalResponse>>) = 1
    /\ Delivered => run.err = Nil

\* The request passed every stage: no error, nothing written, and the
\* Delivery callback invoked once if there is one, not at all otherwise.
Succeeded ==
    /\ run.err = Nil
    /\ ~run.w.wroteHeader
    /\ run.w.Code = StatusOK
    /\ Len(run.deliveryCalls) = IF h.Delivery THEN 1 ELSE 0

\* C1 (amended): at the return of ServeHTTP exactly one of: the request
\* passed every stage (and then Delivery was invoked exactly once when it is
\* set, and nothing was written), a classified error response was written, an
\* internal-error response was written.  With Delivery set this is exactly
\* one of the three outcomes of the claim.  Delivery is never invoked in a run
\* in which a stage returned an error, and an error always ends in a response.
C1_ExactlyOneOutcome ==
    /\ Done => Count(<<Succeeded, ClassifiedResponse, InternalResponse>>) = 1
    /\ Done /\ h.Delivery => Count(<<Delivered, ClassifiedResponse, InternalResponse>>) = 1
    /\ Delivered => run.err = Nil
    /\ Done /\ run.err # Nil => ~Delivered /\ (ClassifiedResponse \/ InternalResponse)
    /\ Done => LET errs == StageErrors IN
               FirstFailure(errs) <= Len(errs) => run.err # Nil

\* A run of a handler with Delivery set that ended in the callback.
C1_Witness == Done /\ h.Delivery /\ Len(run.deliveryCalls) = 1 /\ ~run.w.wroteHeader

-----------------------------------------------------------------------------
\* C2: the stages run in the fixed order and the first failing stage ends
\* the pipeline: the stages entered are an initial part of the order, up to
\* and including the first stage that fails for this request; the error kept
\* is that stage's; the body is read by getRawPayload only, at most once; the
\* decoder runs only on a payload whose signature check passed.
C2_StageOrder ==
    /\ \A i \in 1..Len(StagesRun) : StagesRun[i] = StageOrder[i]
    /\ \A i \in 1..Len(run.log) :
          run.log[i] = "Body.Read" => i > 1 /\ run.log[i - 1] = "getRawPayload"
    /\ Cardinality({i \in 1..Len(run.log) : run.log[i] = "Body.Read"}) <= 1
    /\ InLog("decodePayload") => checkSignature(h, run.rawPayload, req) = Nil
    /\ (InLog("DecodePayload") \/ InLog("json.Unmarshal")) => InLog("checkSignature")
    /\ run.err # Nil => run.pc \in {"handleError", "done"}
    /\ Done =>
          LET errs == StageErrors
              first == FirstFailure(errs)
          IN  IF first <= Len(errs)
              THEN /\ run.err = errs[first]
                   /\ Len(StagesRun) = first
              ELSE /\ run.err = Nil
                   /\ Len(StagesRun) = IF h.Delivery THEN Len(errs) + 1 ELSE Len(errs)

\* A request that three stages would reject ended at the first of them.
C2_Witness ==
    /\ Done
    /\ req.Method = "POST"
    /\ LET errs == StageErrors IN
       /\ errs[3] # Nil /\ errs[4] # Nil /\ errs[5] # Nil
       /\ FirstFailure(errs) = 3
       /\ run.err = errs[3]
    /\ ~InLog("Body.Read")

-----------------------------------------------------------------------------
\* The bytes after "sha1=" are no hexadecimal string.
NotHex(x) == Len(x) % 2 = 1 \/ \E i \in 1..Len(x) : FromHexChar(x[i]) < 0

\* The signature is the HMAC of rawPayload under secret, "sha1="-prefixed
\* and hexadecimal.
GoodSignature(secret, rawPayload, sig) ==
    /\ Len(sig) > 0
    /\ HasPrefix(sig, Chars_sha1)
    /\ ~NotHex(TrimPrefix(sig, Chars_sha1))
    /\ DecodeString(TrimPrefix(sig, Chars_sha1)).bytes = HmacSum(secret, rawPayload)

\* C3: with a non-empty Secret, a request that reached the signature stage
\* with a signature that is absent, not "sha1="-prefixed, not hexadecimal or
\* not the HMAC of the raw payload under Secret gets status 400, and neither
\* the decoder nor Delivery is invoked; Delivery is invoked only for a
\* request whose signature is the HMAC of the raw payload under Secret.
C3_BadSignatureRejected ==
    /\ ( /\ Done
         /\ Len(h.Secret) > 0
         /\ InLog("checkSignature")
         /\ ~GoodSignature(h.Secret, run.rawPayload, HeaderGet(req, "X-Hub-Signature")) )
       => /\ run.w.Code = StatusBadRequest
          /\ run.w.wroteHeader
          /\ run.decodeCalls = <<>>
          /\ ~InLog("decodePayload") /\ ~InLog("DecodePayload") /\ ~InLog("json.Unmarshal")
          /\ ~Delivered
    /\ Len(h.Secret) > 0 /\ Delivered
       => GoodSignature(h.Secret, run.rawPayload, HeaderGet(req, "X-Hub-Signature"))

\* A well-formed signature made with another secret was answered with 400.
C3_Witness ==
    /\ Done
    /\ Len(h.Secret) > 0
    /\ InLog("checkSignature")
    /\ HeaderGet(req, "X-Hub-Signature") = SignatureOf(Chars_wrong, run.rawPayload)
    /\ run.w.Code = StatusBadRequest
    /\ run.err.Message = "invalid header X-Hub-Signature: doesn't match secret"

-----------------------------------------------------------------------------
\* C4: with a non-empty Secret, a POST request with both required headers, a
\* supported content type and the signature testSignRequest makes of the raw
\* payload as extracted passes the signature stage; if the payload decodes,
\* nothing is written (status 200) and Delivery, when set, receives the event,
\* the delivery id and the decoded payload.
C4_GoodSignatureAccepted ==
    LET raw == getRawPayload(req)
        decoded == decodePayload(h, HeaderGet(req, "X-GitHub-Event"), raw.data)
    IN  ( /\ Done
          /\ Len(h.Secret) > 0
          /\ req.Method = "POST"
          /\ Len(HeaderGet(req, "X-GitHub-Event")) > 0
          /\ Len(HeaderGet(req, "X-GitHub-Delivery")) > 0
          /\ raw.err = Nil
          /\ HeaderGet(req, "X-Hub-Signature") = SignatureOf(h.Secret, raw.data) )
        => /\ InLog("decodePayload")
           /\ decoded.err = Nil =>
                 /\ run.err = Nil
                 /\ ~run.w.wroteHeader
                 /\ run.w.Code = StatusOK
                 /\ h.Delivery =>
                       run.deliveryCalls =
                           <<[event |-> HeaderGet(req, "X-GitHub-Event"),
                              deliveryID |-> HeaderGet(req, "X-GitHub-Delivery"),
                              payload |-> decoded.payload]>>

\* A signed form request was delivered: the signature is over the value of
\* the form field, not over the body.
C4_Witness ==
    /\ Done
    /\ Len(h.Secret) > 0
    /\ HeaderGet(req, "Content-Type") = "application/x-www-form-urlencoded"
    /\ run.rawPayload # req.Body
    /\ HeaderGet(req, "X-Hub-Signature") = SignatureOf(h.Secret, run.rawPayload)
    /\ h.DecodePayload = "nil"
    /\ Delivered
    /\ run.deliveryCalls[1].payload = [kind |-> "array", elems |-> <<[kind |-> "number", n |-> 1]>>]

-----------------------------------------------------------------------------
\* The request with another X-Hub-Signature value.
WithSignature(rq, sig) == [rq EXCEPT !.Header["X-Hub-Signature"] = sig]

\* What a client and the callbacks see of a run: the response, the error and
\* the arguments of Delivery.
Outcome(r) ==
    [Code |-> r.w.Code, Body |-> r.w.Body, wroteHeader |-> r.w.wroteHeader,
     err |-> r.err, deliveryCalls |-> r.deliveryCalls]

\* C5: with an empty Secret the signature stage is skipped: the outcome of a
\* request (status, message, Delivery arguments) is that of the same request
\* without the X-Hub-Signature header, whatever its value (every value of
\* the model is tried, so any two values give the same outcome); the stage
\* never ends the pipeline, and a request that the other stages accept
\* succeeds.
C5_NoSecretNoSignatureCheck ==
    (Done /\ Len(h.Secret) = 0) =>
        /\ Outcome(run) =
              Outcome(ServeHTTP(h, WithSignature(req, <<>>), NewRun("checkHTTPMethod")))
        /\ InLog("checkSignature") => InLog("decodePayload")
        /\ LET errs == StageErrors IN
           (\A i \in {1, 2, 3, 4, 6} : errs[i] = Nil) =>
               /\ run.err = Nil
               /\ ~run.w.wroteHeader
               /\ run.w.Code = StatusOK

\* A request with a malformed signature succeeded on a handler without Secret.
C5_Witness ==
    /\ Done
    /\ Len(h.Secret) = 0
    /\ HeaderGet(req, "X-Hub-Signature") = Chars_sha1 \o <<"z">>
    /\ run.err = Nil
    /\ Delivered

-----------------------------------------------------------------------------
\* C6: a request whose method is not exactly "POST" gets status 405 and the
\* message "method not allowed: <method>", whatever its headers and body; the
\* Error observer, when set, is invoked (once, with that error); Delivery is
\* not invoked.
C6_MethodNotAllowed ==
    (Done /\ req.Method # "POST") =>
        /\ run.w.wroteHeader
        /\ run.w.Code = StatusMethodNotAllowed
        /\ run.w.Body = "method not allowed: " \o req.Method \o "\n"
        /\ h.Error =>
              /\ Len(run.errorCalls) = 1
              /\ run.errorCalls[1].err =
                    RequestError(StatusMethodNotAllowed,
                                 "method not allowed: " \o req.Method)
        /\ ~Delivered
        /\ ~InLog("Body.Read")

\* The method "post" was refused and the observer told.
C6_Witness ==
    /\ Done
    /\ req.Method = "post"
    /\ run.w.Code = StatusMethodNotAllowed
    /\ h.Error
    /\ Len(run.errorCalls) = 1

-----------------------------------------------------------------------------
\* C7: a POST request without X-GitHub-Event (absent or empty) gets status
\* 400 and "missing header: X-GitHub-Event"; one with it but without
\* X-GitHub-Delivery gets 400 and "missing header: X-GitHub-Delivery"; when
\* both are missing the event header is the one reported.
C7_MissingHeader ==
    (Done /\ req.Method = "POST") =>
        /\ Len(HeaderGet(req, "X-GitHub-Event")) = 0 =>
              /\ run.w.Code = StatusBadRequest
              /\ run.w.Body = "missing header: X-GitHub-Event\n"
        /\ ( /\ Len(HeaderGet(req, "X-GitHub-Event")) > 0
             /\ Len(HeaderGet(req, "X-GitHub-Delivery")) = 0 ) =>
              /\ run.w.Code = StatusBadRequest
              /\ run.w.Body = "missing header: X-GitHub-Delivery\n"

\* Both headers were missing and the event header was reported.
C7_Witness ==
    /\ Done
    /\ req.Method = "POST"
    /\ Len(HeaderGet(req, "X-GitHub-Event")) = 0
    /\ Len(HeaderGet(req, "X-GitHub-Delivery")) = 0
    /\ run.w.Body = "missing header: X-GitHub-Event\n"

-----------------------------------------------------------------------------
\* C8: a POST request with both required headers whose Content-Type is not
\* exactly one of the two supported values gets status 400 and "invalid
\* content type: <value>"; the body is not read, and the signature stage,
\* the decoder and Delivery do not run.
C8_InvalidContentType ==
    ( /\ Done
      /\ req.Method = "POST"
      /\ Len(HeaderGet(req, "X-GitHub-Event")) > 0
      /\ Len(HeaderGet(req, "X-GitHub-Delivery")) > 0
      /\ HeaderGet(req, "Content-Type")
            \notin {"application/json", "application/x-www-form-urlencoded"} )
    => /\ run.w.Code = StatusBadRequest
       /\ run.w.Body = "invalid content type: " \o HeaderGet(req, "Content-Type") \o "\n"
       /\ ~InLog("Body.Read")
       /\ ~InLog("checkSignature")
       /\ ~InLog("decodePayload") /\ ~InLog("DecodePayload") /\ ~InLog("json.Unmarshal")
       /\ run.decodeCalls = <<>>
       /\ ~Delivered

\* A JSON content type with a charset parameter was refused.
C8_Witness ==
    /\ Done
    /\ InLog("getRawPayload")
    /\ HeaderGet(req, "Content-Type") = "application/json; charset=utf-8"
    /\ run.w.Code = StatusBadRequest
    /\ run.w.Body = "invalid content type: application/json; charset=utf-8\n"

-----------------------------------------------------------------------------
\* The error of the decoder in use on the raw payload of this run, Nil when
\* it decodes.
UnderlyingDecodeError ==
    IF h.DecodePayload # "nil"
    THEN CustomDecodePayload(h.DecodePayload, run.event, run.rawPayload).err
    ELSE IF Unmarshal(run.rawPayload).err # ""
         THEN PlainError(Unmarshal(run.rawPayload).err)
         ELSE Nil

\* C9: a decode failure of the DecodePayload function or of the default JSON
\* decode gets status 400 and "payload decode error: <underlying message>",
\* and Delivery is not invoked; a decoder that always fails gives 400 for
\* every payload that reaches it, whatever the kind of its error.
C9_DecodeErrorIs400 ==
    /\ (Done /\ InLog("decodePayload") /\ UnderlyingDecodeError # Nil) =>
          /\ run.err.kind = "RequestError"
          /\ run.w.Code = StatusBadRequest
          /\ run.w.Body =
                "payload decode error: " \o ErrorText(UnderlyingDecodeError) \o "\n"
          /\ ~Delivered
    /\ (Done /\ InLog("decodePayload") /\ h.DecodePayload \in {"fail", "teapot"}) =>
          /\ run.w.Code = StatusBadRequest
          /\ ~Delivered
    /\ (Done /\ InLog("decodePayload") /\ h.DecodePayload = "teapot") =>
          run.w.Body = "payload decode error: request error 418: I'm a teapot\n"

\* A decoder failing with a RequestError of status 418 on a payload that is
\* valid JSON was answered with 400.
C9_Witness ==
    /\ Done
    /\ h.DecodePayload = "teapot"
    /\ InLog("DecodePayload")
    /\ Unmarshal(run.rawPayload).err = ""
    /\ run.w.Code = StatusBadRequest

-----------------------------------------------------------------------------
\* C10: a failure of reading the body during payload extraction gives status
\* 500 and the generic status text, for both supported content types; it is
\* never a 400 and the pipeline never goes on with a partial or empty payload.
\* Fails for application/x-www-form-urlencoded: PostFormValue drops the error.
C10_BodyReadFailureIs500 ==
    (Done /\ InLog("Body.Read") /\ req.BodyErr) =>
        /\ run.err.kind = "error"
        /\ run.w.Code = StatusInternalServerError
        /\ run.w.Body = "Internal Server Error\n"
        /\ ~InLog("checkSignature")
        /\ ~InLog("decodePayload")
        /\ ~Delivered

-----------------------------------------------------------------------------
\* C11: handleError writes a RequestError with that error's status code and
\* its message as the body, and every other error with status 500 and the
\* status text of 500 as the body: the body of an unclassified error is that
\* text and a newline, nothing of the error's own message.
C11_HandleErrorResponse ==
    Done =>
        /\ run.w.wroteHeader
        /\ run.err.kind = "RequestError" =>
              /\ run.w.Code = run.err.StatusCode
              /\ run.w.Body = run.err.Message \o "\n"
        /\ run.err.kind # "RequestError" =>
              /\ run.w.Code = StatusInternalServerError
              /\ run.w.Body = "Internal Server Error\n"
              /\ run.w.Body # run.err.Message \o "\n"

\* The error of TestHandlerErrorInternal was answered with 500 and the
\* status text.
C11_Witness ==
    /\ Done
    /\ run.err = PlainError("internal error")
    /\ run.w.Code = StatusInternalServerError
    /\ run.w.Body = "Internal Server Error\n"

-----------------------------------------------------------------------------
\* C12: the Error observer is invoked exactly when the request failed and
\* the handler has an observer: once, inside handleError after http.Error has
\* written the response, with the error the failing stage returned (be it a
\* RequestError or not) and the request ServeHTTP was given.  It is not invoked
\* before the return of a failed run, not for a request that passed every
\* stage, and not in a run that invoked Delivery.
C12_ErrorObserver ==
    /\ Len(run.errorCalls) <= 1
    /\ ~Done => run.errorCalls = <<>>
    /\ ~(Delivered /\ run.errorCalls # <<>>)
    /\ Done =>
          LET errs == StageErrors
              first == FirstFailure(errs)
              failed == first <= Len(errs)
          IN  /\ failed <=> run.err # Nil
              /\ failed /\ h.Error =>
                    /\ run.errorCalls = <<[err |-> errs[first], req |-> req]>>
                    /\ run.errorCalls[1].err = run.err
                    /\ run.w.wroteHeader
                    /\ Len(run.log) >= 2
                    /\ run.log[Len(run.log) - 1] = "http.Error"
                    /\ run.log[Len(run.log)] = "Error"
                    /\ Cardinality({i \in 1..Len(run.log) : run.log[i] = "Error"}) = 1
                    /\ ~InLog("Delivery")
              /\ ~failed \/ ~h.Error =>
                    /\ run.errorCalls = <<>>
                    /\ ~InLog("Error")

\* The observer was told of an error that is no RequestError, after the 500
\* was written.
C12_Witness ==
    /\ Done
    /\ h.Error
    /\ run.err.kind = "error"
    /\ run.errorCalls = <<[err |-> run.err, req |-> req]>>
    /\ run.w.Code = StatusInternalServerError
    /\ run.log[Len(run.log)] = "Error"

-----------------------------------------------------------------------------
\* C13: when every stage of the request succeeds, the Delivery callback of a
\* handler that has one is invoked exactly once, as the last step before
\* ServeHTTP returns, with the request's X-GitHub-Event value, its
\* X-GitHub-Delivery value and the value the decoder returned (the result of
\* Handler.DecodePayload when it is set, what json.Unmarshal made of the raw
\* payload otherwise); a handler without Delivery invokes nothing.  Nothing is
\* written and the observer is not invoked: the status stays 200.  Delivery
\* is invoked at no other point of a run.
C13_DeliveryOnSuccess ==
    /\ Len(run.deliveryCalls) <= 1
    /\ ~Done => run.deliveryCalls = <<>>
    /\ Done =>
          LET errs == StageErrors
              raw == getRawPayload(req).data
              event == HeaderGet(req, "X-GitHub-Event")
              decoded == IF h.DecodePayload # "nil"
                         THEN CustomDecodePayload(h.DecodePayload, event, raw).payload
                         ELSE Unmarshal(raw).val
          IN  IF FirstFailure(errs) > Len(errs)
              THEN /\ h.Delivery =>
                         /\ run.deliveryCalls =
                                <<[event |-> event,
                                   deliveryID |-> HeaderGet(req, "X-GitHub-Delivery"),
                                   payload |-> decoded]>>
                         /\ run.log[Len(run.log)] = "Delivery"
                         /\ Cardinality({i \in 1..Len(run.log) : run.log[i] = "Delivery"}) = 1
                   /\ ~h.Delivery => run.deliveryCalls = <<>> /\ ~InLog("Delivery")
                   /\ ~run.w.wroteHeader
                   /\ run.w.Code = StatusOK
                   /\ run.w.Body = ""
                   /\ run.errorCalls = <<>>
                   /\ ~InLog("handleError")
              ELSE run.deliveryCalls = <<>> /\ ~InLog("Delivery")

\* A signed request was decoded by the handler's own decoder and delivered
\* with its headers' values and that decoder's value.
C13_Witness ==
    /\ Done
    /\ h.Secret # <<>>
    /\ h.DecodePayload = "string"
    /\ run.rawPayload # <<>>
    /\ run.deliveryCalls =
           <<[event |-> HeaderGet(req, "X-GitHub-Event"),
              deliveryID |-> HeaderGet(req, "X-GitHub-Delivery"),
              payload |-> [kind |-> "string", s |-> run.rawPayload]]>>
    /\ HeaderGet(req, "X-GitHub-Event") # HeaderGet(req, "X-GitHub-Delivery")
    /\ run.w.Code = StatusOK

====
